---- MODULE Spec2Model ----
(***************************************************************************)
(* EventfulNetwork (graph_notebook/network/EventfulNetwork.py): a graph    *)
(* wrapper that forwards each mutating call to the base Network and then   *)
(* dispatches the call's arguments to the callbacks registered for the     *)
(* event.  The model follows one call at a time through its statements:    *)
(* the base call with the construction of the payload, and the dispatch    *)
(* loop with one step per callback invocation and return.                  *)
(* Further specifications cover the two helper methods (SpecUtil), what a  *)
(* running callback may do with the network and the payload it is passed   *)
(* (SpecReentrant), construction with a callbacks argument (SpecCtor), a   *)
(* second network (SpecTwo) and repeated mutations (SpecRetry).            *)
(***************************************************************************)
EXTENDS Integers, Sequences, FiniteSets, TLC

VARIABLES
    callbacks,      \* self.callbacks: the keys present -> list of callbacks
    default_factory,\* "list" for defaultdict(list), "none" for a plain dict
    graph,          \* the base Network's graph: [nodes, edges]
    pc,             \* "idle", or the statement of the running wrapper
    call,           \* the API call in progress (or the last one): [op, args]
    data,           \* the wrapper's local `data` after defaulting
    payload,        \* the wrapper's local payload dict (None before it is built)
    idx,            \* position of dispatch_callbacks' for loop in the list
    running,        \* TRUE while the callback at idx is executing
    baseOutcome,    \* super().<op>(...) of this call: "none" yet, "returned" or "raised"
    result,         \* how the call ended: "pending" while it runs
    invoked,        \* the callback invocations of this call, in order
    nBaseOk,        \* per wrapper: base mutations that succeeded since the registry last changed
    nInv,           \* per callback and event: invocations since the registry last changed
    nMut,           \* base mutations that succeeded in all
    regLog,         \* the registration calls that succeeded, in order
    lenAtStart,     \* callbacks the event of this call had when the call began (0: no event)
    outer,          \* the suspended call whose callback made this call (None at top level)
    other           \* a second EventfulNetwork: [arg, ref, callbacks, regLog]

vars == <<callbacks, default_factory, graph, pc, call, data, payload, idx, running,
          baseOutcome, result, invoked, nBaseOk, nInv, nMut, regLog, lenAtStart, outer, other>>

-----------------------------------------------------------------------------
(* Bounds of the model. *)

MaxMutations == 1       \* Spec: base mutations that may succeed
MaxRegs == 1            \* Spec: registration calls that may succeed
MaxMutationsOrder == 1  \* SpecOrder: base mutations that may succeed
MaxRegsOrder == 3       \* SpecOrder: registration calls that may succeed
MaxCallsPerKind == 1    \* SpecAll: base mutations of one kind that may succeed

-----------------------------------------------------------------------------
(* Values. *)

EVENT_ADD_NODE == "add_node"
EVENT_ADD_NODE_DATA == "add_node_data"
EVENT_ADD_NODE_PROPERTY == "add_node_property"
EVENT_ADD_EDGE == "add_edge"
EVENT_ADD_EDGE_DATA == "add_edge_data"

VALID_EVENTS ==
    <<EVENT_ADD_NODE, EVENT_ADD_NODE_DATA, EVENT_ADD_NODE_PROPERTY,
      EVENT_ADD_EDGE, EVENT_ADD_EDGE_DATA>>

ValidEventSet == {VALID_EVENTS[i] : i \in 1..Len(VALID_EVENTS)}

\* An event name a caller may pass to register_callback that is not in VALID_EVENTS.
OtherEvents == {"remove_node"}

\* Objects passed as callbacks: two functions and a value that is not callable.
Callables == {"f", "g"}
NonCallables == {"x"}

\* Python's callable().
callable(c) == c \in Callables

\* Python's None, and dicts as functions from the keys present.
None == [None |-> TRUE]
EmptyDict == <<>>

Nodes == {"n1", "n2"}
EdgeIds == {"e1"}
Labels == {"knows"}
Keys == {"k"}
Vals == {"v1"}
DataArgs == {None, [k |-> "v1"]}

\* dict.update
Update(m1, m2) ==
    [k \in (DOMAIN m1) \cup (DOMAIN m2) |-> IF k \in DOMAIN m2 THEN m2[k] ELSE m1[k]]

\* d[k] = v
SetItem(m, k, v) == [x \in (DOMAIN m) \cup {k} |-> IF x = k THEN v ELSE m[x]]

-----------------------------------------------------------------------------
(* The base Network: the five operations the wrapper forwards to. *)

EmptyGraph == [nodes |-> <<>>, edges |-> <<>>]

SampleGraph ==
    [nodes |-> [n \in Nodes |-> EmptyDict],
     edges |-> SetItem(<<>>, <<"n1", "n2", "e1">>, [label |-> "knows", data |-> EmptyDict])]

\* The graph the constructor is given (or builds).
InitialGraphs == {EmptyGraph, SampleGraph}

EdgeKey(a) == <<a.from_id, a.to_id, a.edge_id>>

\* Whether the references of the call are valid in g.
BaseRefsValid(g, op, a) ==
    CASE op = "add_node" -> TRUE
      [] op = "add_node_data" -> a.node_id \in DOMAIN g.nodes
      [] op = "add_node_property" -> a.node_id \in DOMAIN g.nodes
      [] op = "add_edge" -> a.from_id \in DOMAIN g.nodes /\ a.to_id \in DOMAIN g.nodes
      [] op = "add_edge_data" -> EdgeKey(a) \in DOMAIN g.edges

\* The graph after the base operation succeeded; d is the data mapping passed.
BaseApply(g, op, a, d) ==
    CASE op = "add_node" ->
           [g EXCEPT !.nodes = SetItem(g.nodes, a.node_id,
                Update(IF a.node_id \in DOMAIN g.nodes THEN g.nodes[a.node_id] ELSE EmptyDict, d))]
      [] op = "add_node_data" ->
           [g EXCEPT !.nodes = SetItem(g.nodes, a.node_id, Update(g.nodes[a.node_id], d))]
      [] op = "add_node_property" ->
           [g EXCEPT !.nodes = SetItem(g.nodes, a.node_id,
                SetItem(g.nodes[a.node_id], a.key, a.value))]
      [] op = "add_edge" ->
           [g EXCEPT !.edges = SetItem(g.edges, EdgeKey(a),
                [label |-> a.label,
                 data |-> Update(IF EdgeKey(a) \in DOMAIN g.edges
                                 THEN g.edges[EdgeKey(a)].data ELSE EmptyDict, d)])]
      [] op = "add_edge_data" ->
           [g EXCEPT !.edges = SetItem(g.edges, EdgeKey(a),
                [label |-> g.edges[EdgeKey(a)].label,
                 data |-> Update(g.edges[EdgeKey(a)].data, d)])]

-----------------------------------------------------------------------------
(* The registry. *)

\* self.callbacks[key] on the mapping cbs: the mapping afterwards and whether the
\* lookup succeeded (a defaultdict inserts the missing key, a dict raises KeyError).
GetItem(cbs, factory, key) ==
    IF key \in DOMAIN cbs THEN [cbs |-> cbs, ok |-> TRUE]
    ELSE IF factory = "list" THEN [cbs |-> SetItem(cbs, key, <<>>), ok |-> TRUE]
    ELSE [cbs |-> cbs, ok |-> FALSE]

\* Variants of register_callback with a plausible slip each: the callback put at the
\* front of the list, a callback already in the list skipped, and the callable() test
\* made after the append.
register_callback_front(cbs, factory, event, callback) ==
    IF ~callable(callback) THEN [cbs |-> cbs, result |-> "ValueError"]
    ELSE LET got == GetItem(cbs, factory, event) IN
         IF ~got.ok THEN [cbs |-> cbs, result |-> "KeyError"]
         ELSE [cbs |-> [got.cbs EXCEPT ![event] = <<callback>> \o @], result |-> "ok"]

register_callback_once(cbs, factory, event, callback) ==
    IF ~callable(callback) THEN [cbs |-> cbs, result |-> "ValueError"]
    ELSE LET got == GetItem(cbs, factory, event) IN
         IF ~got.ok THEN [cbs |-> cbs, result |-> "KeyError"]
         ELSE IF \E i \in 1..Len(got.cbs[event]) : got.cbs[event][i] = callback
              THEN [cbs |-> got.cbs, result |-> "ok"]
              ELSE [cbs |-> [got.cbs EXCEPT ![event] = Append(@, callback)], result |-> "ok"]

register_callback_late_test(cbs, factory, event, callback) ==
    LET got == GetItem(cbs, factory, event) IN
    IF ~got.ok THEN [cbs |-> cbs, result |-> "KeyError"]
    ELSE [cbs |-> [got.cbs EXCEPT ![event] = Append(@, callback)],
          result |-> IF callable(callback) THEN "ok" ELSE "ValueError"]

\* register_callback: the registry afterwards and the outcome.
register_callback(cbs, factory, event, callback) ==
    IF ~callable(callback) THEN [cbs |-> cbs, result |-> "ValueError"]
    ELSE LET got == GetItem(cbs, factory, event) IN
         IF ~got.ok THEN [cbs |-> cbs, result |-> "KeyError"]
         ELSE [cbs |-> [got.cbs EXCEPT ![event] = Append(@, callback)], result |-> "ok"]

\* The for loop of register_universal_callback over VALID_EVENTS from position i on;
\* an exception of register_callback ends it.
RECURSIVE RegisterFrom(_, _, _, _)
RegisterFrom(cbs, factory, callback, i) ==
    IF i > Len(VALID_EVENTS) THEN [cbs |-> cbs, result |-> "ok"]
    ELSE LET r == register_callback(cbs, factory, VALID_EVENTS[i], callback) IN
         IF r.result # "ok" THEN r
         ELSE RegisterFrom(r.cbs, factory, callback, i + 1)

\* Variant of register_universal_callback that stops after the first event.
register_universal_callback_first(cbs, factory, callback) ==
    IF ~callable(callback) THEN [cbs |-> cbs, result |-> "ValueError"]
    ELSE register_callback(cbs, factory, VALID_EVENTS[1], callback)

register_universal_callback(cbs, factory, callback) ==
    IF ~callable(callback) THEN [cbs |-> cbs, result |-> "ValueError"]
    ELSE RegisterFrom(cbs, factory, callback, 1)

\* len(cbs[event_name]) when the key is present, without inserting it.
LenOf(cbs, event_name) == IF event_name \in DOMAIN cbs THEN Len(cbs[event_name]) ELSE 0

\* dispatch_callbacks: whether the for loop has a next callback to call.
HasNext(cbs, event_name, i) ==
    /\ event_name \in DOMAIN cbs
    /\ i < Len(cbs[event_name])

\* A callbacks argument: the mapping that the first network holds as self.callbacks.
TheSameMapping == [ref |-> "same"]

\* Variant of CallbacksRef for a mutable default argument (callbacks=defaultdict(list)
\* in the signature): every instance built without the argument gets the one mapping.
CallbacksRefDefaultArg(arg) == "same"

\* __init__: the mapping self.callbacks refers to.  The argument is None or a reference
\* to a mapping; "same" is the mapping the first network holds, "own" a new one.
CallbacksRef(arg) == IF arg = None THEN "own" ELSE arg.ref

\* A second network as its constructor leaves it: the callbacks argument it was
\* given, the mapping its self.callbacks refers to, the content of that mapping when it
\* is its own, and the registration calls made on it that succeeded.
NewNetwork(arg) ==
    [arg |-> arg, ref |-> CallbacksRef(arg), callbacks |-> <<>>, regLog |-> <<>>]

-----------------------------------------------------------------------------
(* The wrappers. *)

\* Variant of EventOf in which add_node_property passes the constant of add_node.
EventOfSlip(op) ==
    CASE op = "add_node" -> EVENT_ADD_NODE
      [] op = "add_node_data" -> EVENT_ADD_NODE_DATA
      [] op = "add_node_property" -> EVENT_ADD_NODE
      [] op = "add_edge" -> EVENT_ADD_EDGE
      [] op = "add_edge_data" -> EVENT_ADD_EDGE_DATA

\* The event constant each wrapper passes to dispatch_callbacks.
EventOf(op) ==
    CASE op = "add_node" -> EVENT_ADD_NODE
      [] op = "add_node_data" -> EVENT_ADD_NODE_DATA
      [] op = "add_node_property" -> EVENT_ADD_NODE_PROPERTY
      [] op = "add_edge" -> EVENT_ADD_EDGE
      [] op = "add_edge_data" -> EVENT_ADD_EDGE_DATA

\* if data is None: data = {}
DefaultData(d) == IF d = None THEN EmptyDict ELSE d

\* Variant of PayloadOf with the ends of an edge exchanged and the caller's data
\* argument, not the defaulted one, in the payload.
PayloadOfSlip(op, a, d) ==
    CASE op = "add_node" -> [node_id |-> a.node_id, data |-> d]
      [] op = "add_node_data" -> [node_id |-> a.node_id, data |-> a.data]
      [] op = "add_node_property" -> [node_id |-> a.node_id, key |-> a.key, value |-> a.value]
      [] op = "add_edge" ->
           [from_id |-> a.to_id, to_id |-> a.from_id, edge_id |-> a.edge_id,
            label |-> a.label, data |-> d]
      [] op = "add_edge_data" ->
           [from_id |-> a.from_id, to_id |-> a.to_id, edge_id |-> a.edge_id, data |-> d]

\* The dict each wrapper builds after the base call; d is the local `data`.
PayloadOf(op, a, d) ==
    CASE op = "add_node" -> [node_id |-> a.node_id, data |-> d]
      [] op = "add_node_data" -> [node_id |-> a.node_id, data |-> d]
      [] op = "add_node_property" -> [node_id |-> a.node_id, key |-> a.key, value |-> a.value]
      [] op = "add_edge" ->
           [from_id |-> a.from_id, to_id |-> a.to_id, edge_id |-> a.edge_id,
            label |-> a.label, data |-> d]
      [] op = "add_edge_data" ->
           [from_id |-> a.from_id, to_id |-> a.to_id, edge_id |-> a.edge_id, data |-> d]

\* Variant of WrapperSteps that dispatches before the base call.
WrapperStepsDispatchFirst == <<"dispatch", "base">>

\* The statements of a wrapper after the defaulting of data, in order.
WrapperSteps == <<"base", "dispatch">>

StepAfter(s) ==
    LET i == CHOOSE j \in 1..Len(WrapperSteps) : WrapperSteps[j] = s IN
    IF i = Len(WrapperSteps) THEN "return" ELSE WrapperSteps[i + 1]

\* The five wrappers, and the events they dispatch.
Wrappers == {"add_node", "add_node_data", "add_node_property", "add_edge", "add_edge_data"}
WrapperEvents == {EventOf(op) : op \in Wrappers}

ZeroCounts == [op \in Wrappers |-> 0]
ZeroInv == [c \in Callables |-> [e \in WrapperEvents |-> 0]]

\* Control reaches statement s of the wrapper; "return" ends the call.
GoTo(s) ==
    /\ pc' = IF s = "return" THEN "idle" ELSE s
    /\ result' = IF s = "return" THEN "ok" ELSE result

\* The state __init__ leaves: cbs and factory are the mapping self.callbacks refers to.
Constructed(cbs, factory) ==
    /\ callbacks = cbs
    /\ default_factory = factory
    /\ graph \in InitialGraphs
    /\ pc = "idle"
    /\ call = [op |-> "__init__", args |-> <<>>]
    /\ data = None
    /\ payload = None
    /\ idx = 0
    /\ running = FALSE
    /\ baseOutcome = "none"
    /\ result = "ok"
    /\ invoked = <<>>
    /\ nBaseOk = ZeroCounts
    /\ nInv = ZeroInv
    /\ nMut = 0
    /\ regLog = <<>>
    /\ lenAtStart = 0
    /\ outer = None

\* EventfulNetwork(graph) or EventfulNetwork(): callbacks is None, so self.callbacks
\* is a new defaultdict(list).  The second network is constructed in the same way.
Init == Constructed(<<>>, "list") /\ other = NewNetwork(None)

\* Entry of a wrapper: the arguments are bound and data is defaulted.
Begin(op, a, d) ==
    /\ pc = "idle"
    /\ outer = None
    /\ call' = [op |-> op, args |-> a]
    /\ data' = d
    /\ payload' = None
    /\ idx' = 0
    /\ running' = FALSE
    /\ baseOutcome' = "none"
    /\ invoked' = <<>>
    /\ pc' = WrapperSteps[1]
    /\ result' = "pending"
    /\ lenAtStart' = LenOf(callbacks, EventOf(op))
    /\ UNCHANGED <<callbacks, default_factory, graph, nBaseOk, nInv, nMut, regLog, outer,
                   other>>

add_node(node_id, d) ==
    Begin("add_node", [node_id |-> node_id, data |-> d], DefaultData(d))

add_node_data(node_id, d) ==
    Begin("add_node_data", [node_id |-> node_id, data |-> d], DefaultData(d))

add_node_property(node_id, key, value) ==
    Begin("add_node_property", [node_id |-> node_id, key |-> key, value |-> value], None)

add_edge(from_id, to_id, edge_id, label, d) ==
    Begin("add_edge",
          [from_id |-> from_id, to_id |-> to_id, edge_id |-> edge_id, label |-> label,
           data |-> d],
          DefaultData(d))

add_edge_data(from_id, to_id, edge_id, d) ==
    Begin("add_edge_data",
          [from_id |-> from_id, to_id |-> to_id, edge_id |-> edge_id, data |-> d],
          DefaultData(d))

\* super().<op>(...) returns: the graph is changed, and the wrapper builds its payload.
BaseReturns ==
    /\ pc = "base"
    /\ BaseRefsValid(graph, call.op, call.args)
    /\ graph' = BaseApply(graph, call.op, call.args, data)
    /\ baseOutcome' = "returned"
    /\ payload' = PayloadOf(call.op, call.args, data)
    /\ nBaseOk' = [nBaseOk EXCEPT ![call.op] = @ + 1]
    /\ nMut' = nMut + 1
    /\ GoTo(StepAfter("base"))
    /\ UNCHANGED <<callbacks, default_factory, call, data, idx, running, invoked,
                   nInv, regLog, lenAtStart, outer, other>>

\* Variant of BaseRaises in which the wrapper catches the exception and goes on.
BaseRaisesCaught ==
    /\ pc = "base"
    /\ baseOutcome' = "raised"
    /\ payload' = PayloadOf(call.op, call.args, data)
    /\ GoTo(StepAfter("base"))
    /\ UNCHANGED <<callbacks, default_factory, graph, call, data, idx, running,
                   invoked, nBaseOk, nInv, nMut, regLog, lenAtStart, outer, other>>

\* super().<op>(...) raises: the exception leaves the wrapper.
BaseRaises ==
    /\ pc = "base"
    /\ baseOutcome' = "raised"
    /\ pc' = "idle"
    /\ result' = "BaseError"
    /\ UNCHANGED <<callbacks, default_factory, graph, call, data, payload, idx, running,
                   invoked, nBaseOk, nInv, nMut, regLog, lenAtStart, outer, other>>


\* dispatch_callbacks calls the next callback: c(self, event_name, data).
DispatchCall ==
    /\ pc = "dispatch"
    /\ ~running
    /\ HasNext(callbacks, EventOf(call.op), idx)
    /\ LET event_name == EventOf(call.op)
           c == callbacks[event_name][idx + 1]
       IN /\ invoked' = Append(invoked,
                [callback |-> c, network |-> "self", event_name |-> event_name,
                 data |-> payload, outcome |-> "running"])
          /\ nInv' = [nInv EXCEPT ![c][event_name] = @ + 1]
    /\ idx' = idx + 1
    /\ running' = TRUE
    /\ UNCHANGED <<callbacks, default_factory, graph, pc, call, data, payload, baseOutcome,
                   result, nBaseOk, nMut, regLog, lenAtStart, outer, other>>

\* Variant of DispatchEnd that reads self.callbacks[event_name] without the `in` test.
DispatchEndGetItem ==
    /\ pc = "dispatch"
    /\ ~running
    /\ ~HasNext(callbacks, EventOf(call.op), idx)
    /\ callbacks' = GetItem(callbacks, default_factory, EventOf(call.op)).cbs
    /\ GoTo(StepAfter("dispatch"))
    /\ UNCHANGED <<default_factory, graph, call, data, payload, idx, running,
                   baseOutcome, invoked, nBaseOk, nInv, nMut, regLog, lenAtStart, outer, other>>

\* dispatch_callbacks returns: the event has no entry, or the loop is exhausted.
DispatchEnd ==
    /\ pc = "dispatch"
    /\ ~running
    /\ ~HasNext(callbacks, EventOf(call.op), idx)
    /\ GoTo(StepAfter("dispatch"))
    /\ UNCHANGED <<callbacks, default_factory, graph, call, data, payload, idx, running,
                   baseOutcome, invoked, nBaseOk, nInv, nMut, regLog, lenAtStart, outer, other>>

\* The running callback returns; the loop goes on.
CallbackReturns ==
    /\ running
    /\ running' = FALSE
    /\ invoked' = [invoked EXCEPT ![Len(invoked)].outcome = "returned"]
    /\ UNCHANGED <<callbacks, default_factory, graph, pc, call, data, payload, idx,
                   baseOutcome, result, nBaseOk, nInv, nMut, regLog, lenAtStart, outer, other>>

\* Variant of CallbackRaises in which the loop catches the exception and goes on.
CallbackRaisesCaught ==
    /\ running
    /\ running' = FALSE
    /\ invoked' = [invoked EXCEPT ![Len(invoked)].outcome = "raised"]
    /\ UNCHANGED <<callbacks, default_factory, graph, pc, call, data, payload, idx,
                   baseOutcome, result, nBaseOk, nInv, nMut, regLog, lenAtStart, outer, other>>

\* Variant of CallbackRaises in which the callback that failed is taken off the list.
CallbackRaisesUnregisters ==
    /\ running
    /\ running' = FALSE
    /\ invoked' = [invoked EXCEPT ![Len(invoked)].outcome = "raised"]
    /\ pc' = "idle"
    /\ result' = "ListenerError"
    /\ callbacks' = [callbacks EXCEPT ![EventOf(call.op)] =
                        SubSeq(@, 1, idx - 1) \o SubSeq(@, idx + 1, Len(@))]
    /\ UNCHANGED <<default_factory, graph, call, data, payload, idx, baseOutcome,
                   nBaseOk, nInv, nMut, regLog, lenAtStart, outer, other>>

\* The running callback raises; nothing catches it, so the call ends with it.
CallbackRaises ==
    /\ running
    /\ running' = FALSE
    /\ invoked' = [invoked EXCEPT ![Len(invoked)].outcome = "raised"]
    /\ pc' = "idle"
    /\ result' = "ListenerError"
    /\ UNCHANGED <<callbacks, default_factory, graph, call, data, payload, idx, baseOutcome,
                   nBaseOk, nInv, nMut, regLog, lenAtStart, outer, other>>

\* A registration call as a whole; r is what it does to the registry.
Registration(op, a, r) ==
    /\ pc = "idle"
    /\ outer = None
    /\ call' = [op |-> op, args |-> a]
    /\ callbacks' = r.cbs
    /\ result' = r.result
    /\ invoked' = <<>>
    /\ data' = None
    /\ payload' = None
    /\ idx' = 0
    /\ baseOutcome' = "none"
    /\ IF r.result = "ok"
       THEN /\ regLog' = Append(regLog, [op |-> op, args |-> a])
            /\ nBaseOk' = ZeroCounts
            /\ nInv' = ZeroInv
       ELSE UNCHANGED <<regLog, nBaseOk, nInv>>
    /\ lenAtStart' = 0
    /\ UNCHANGED <<default_factory, graph, pc, running, nMut, outer, other>>

RegisterCallback(event, callback) ==
    Registration("register_callback", [event |-> event, callback |-> callback],
                 register_callback(callbacks, default_factory, event, callback))

RegisterUniversalCallback(callback) ==
    Registration("register_universal_callback", [callback |-> callback],
                 register_universal_callback(callbacks, default_factory, callback))

\* The statements of a call in progress: one of them is the next step.
Step ==
    \/ BaseReturns
    \/ BaseRaises
    \/ DispatchCall
    \/ DispatchEnd
    \/ CallbackReturns
    \/ CallbackRaises

-----------------------------------------------------------------------------
(* Spec: every operation with a choice of arguments, one callback, few calls. *)

Next ==
    \/ \E n \in Nodes, d \in DataArgs : nMut < MaxMutations /\ add_node(n, d)
    \/ \E n \in Nodes, d \in DataArgs : nMut < MaxMutations /\ add_node_data(n, d)
    \/ \E n \in Nodes, k \in Keys, v \in Vals :
          nMut < MaxMutations /\ add_node_property(n, k, v)
    \/ \E f \in Nodes, t \in {"n2"}, e \in EdgeIds, l \in Labels, d \in DataArgs :
          nMut < MaxMutations /\ add_edge(f, t, e, l, d)
    \/ \E f \in Nodes, t \in {"n2"}, e \in EdgeIds, d \in DataArgs :
          nMut < MaxMutations /\ add_edge_data(f, t, e, d)
    \/ \E ev \in ValidEventSet \cup OtherEvents, c \in {"f"} \cup NonCallables :
          (Len(regLog) < MaxRegs \/ ~callable(c)) /\ RegisterCallback(ev, c)
    \/ \E c \in {"f"} \cup NonCallables :
          (Len(regLog) < MaxRegs \/ ~callable(c)) /\ RegisterUniversalCallback(c)
    \/ Step

Spec == Init /\ [][Next]_vars

-----------------------------------------------------------------------------
(* SpecOrder: long callback lists, on a graph in which every call can succeed. *)

InitOrder == Init /\ graph = SampleGraph

NextOrder ==
    \/ \E d \in DataArgs : nMut < MaxMutationsOrder /\ add_node("n1", d)
    \/ \E d \in DataArgs : nMut < MaxMutationsOrder /\ add_node_data("n1", d)
    \/ nMut < MaxMutationsOrder /\ add_node_property("n1", "k", "v1")
    \/ \E d \in DataArgs : nMut < MaxMutationsOrder /\ add_edge("n1", "n2", "e1", "knows", d)
    \/ \E d \in DataArgs : nMut < MaxMutationsOrder /\ add_edge_data("n1", "n2", "e1", d)
    \/ \E c \in Callables : Len(regLog) < MaxRegsOrder /\ RegisterCallback(EVENT_ADD_NODE, c)
    \/ \E c \in Callables : Len(regLog) < MaxRegsOrder /\ RegisterUniversalCallback(c)
    \/ Step

SpecOrder == InitOrder /\ [][NextOrder]_vars

-----------------------------------------------------------------------------
(* SpecAll: mutations of every kind after one registration for all events on a  *)
(* graph that has no callbacks yet.                                             *)

NextAll ==
    \/ \E d \in DataArgs :
          nBaseOk["add_node"] < MaxCallsPerKind /\ add_node("n1", d)
    \/ \E d \in DataArgs :
          nBaseOk["add_node_data"] < MaxCallsPerKind /\ add_node_data("n1", d)
    \/ nBaseOk["add_node_property"] < MaxCallsPerKind /\ add_node_property("n1", "k", "v1")
    \/ \E d \in DataArgs :
          nBaseOk["add_edge"] < MaxCallsPerKind /\ add_edge("n1", "n2", "e1", "knows", d)
    \/ \E d \in DataArgs :
          nBaseOk["add_edge_data"] < MaxCallsPerKind /\ add_edge_data("n1", "n2", "e1", d)
    \/ \E c \in Callables \cup NonCallables : callbacks = <<>> /\ RegisterUniversalCallback(c)
    \/ Step

SpecAll == InitOrder /\ [][NextAll]_vars

-----------------------------------------------------------------------------
(* The two helper methods: strip_and_truncate_label and flatten.  Strings are  *)
(* sequences of characters; a dict is [items |-> its (key, value) pairs in     *)
(* insertion order], a leaf value is [leaf |-> v].                             *)

MaxLabelLen == 4    \* SpecUtil: characters of a label
MaxMaxLen == 4      \* SpecUtil: largest max_len passed
MaxDepth == 2       \* SpecUtil: nesting depth of the dicts flattened
MaxItems == 2       \* SpecUtil: entries of one dict

Min(a, b) == IF a <= b THEN a ELSE b
Max(a, b) == IF a >= b THEN a ELSE b

\* s[:n] of Python: a negative n counts from the end.
SliceTo(s, n) ==
    IF n >= 0 THEN SubSeq(s, 1, Min(n, Len(s))) ELSE SubSeq(s, 1, Max(Len(s) + n, 0))

\* str.strip(chars): the leading and the trailing characters in chars are removed.
strip(s, chars) ==
    LET keep == {i \in 1..Len(s) : s[i] \notin chars} IN
    IF keep = {} THEN <<>>
    ELSE SubSeq(s, CHOOSE i \in keep : \A j \in keep : i <= j,
                   CHOOSE i \in keep : \A j \in keep : i >= j)

\* strip_and_truncate_label; old_label is a str, which str() returns as it is.
strip_and_truncate_label(old_label, max_len) ==
    LET label == strip(old_label, {"[", "]", "'"}) IN
    IF Len(label) <= max_len THEN label ELSE SliceTo(label, max_len - 3) \o <<".", ".", ".">>

\* isinstance(v, collections.MutableMapping)
IsMapping(v) == "items" \in DOMAIN v

\* dict(items): a key keeps the position of its first pair and the value of its last.
RECURSIVE dict(_)
dict(items) ==
    IF items = <<>> THEN <<>>
    ELSE LET before == dict(SubSeq(items, 1, Len(items) - 1))
             last == items[Len(items)]
         IN IF \E i \in 1..Len(before) : before[i][1] = last[1]
            THEN [i \in 1..Len(before) |-> IF before[i][1] = last[1] THEN last ELSE before[i]]
            ELSE Append(before, last)

\* flatten, and the items its for loop collects from entry i of d on.  The recursive
\* call is self.flatten(v): parent_key and sep take their defaults there.
RECURSIVE flatten(_, _, _), FlattenFrom(_, _, _, _)
FlattenFrom(d, parent_key, sep, i) ==
    IF i > Len(d.items) THEN <<>>
    ELSE LET k == d.items[i][1]
             v == d.items[i][2]
             new_key == IF parent_key # <<>> THEN parent_key \o sep \o k ELSE k
         IN (IF IsMapping(v) THEN flatten(v, <<>>, <<"_">>).items ELSE <<<<new_key, v>>>>)
            \o FlattenFrom(d, parent_key, sep, i + 1)

flatten(d, parent_key, sep) == [items |-> dict(FlattenFrom(d, parent_key, sep, 1))]

\* The arguments the helper methods are called with.
LabelChars == {"[", "'", "a", "]"}
LabelArgs == UNION {[1..n -> LabelChars] : n \in 0..MaxLabelLen}
MaxLenArgs == 0..MaxMaxLen
DictKeys == {<<"a">>, <<"b">>}
Leaves == {[leaf |-> 1], [leaf |-> 2]}

RECURSIVE DictArgs(_)
DictArgs(depth) ==
    LET values == IF depth = 1 THEN Leaves ELSE Leaves \cup DictArgs(depth - 1) IN
    {[items |-> its] :
        its \in {s \in UNION {[1..n -> DictKeys \X values] : n \in 0..MaxItems} :
                    \A i, j \in 1..Len(s) : s[i][1] = s[j][1] => i = j}}

\* A call of a helper method as a whole: it ends with [returned |-> the value] or
\* [raised |-> the exception] as its result and changes nothing.
Helper(op, a, r) ==
    /\ pc = "idle"
    /\ outer = None
    /\ call' = [op |-> op, args |-> a]
    /\ result' = r
    /\ UNCHANGED <<callbacks, default_factory, graph, pc, data, payload, idx, running,
                   baseOutcome, invoked, nBaseOk, nInv, nMut, regLog, lenAtStart, outer,
                   other>>

StripAndTruncateLabel(old_label, max_len) ==
    Helper("strip_and_truncate_label", [old_label |-> old_label, max_len |-> max_len],
           [returned |-> strip_and_truncate_label(old_label, max_len)])

\* has_abc: whether the interpreter still has collections.MutableMapping (it was
\* removed in Python 3.10); without it the isinstance test of the first entry raises.
Flatten(d, has_abc) ==
    Helper("flatten", [d |-> d],
           IF ~has_abc /\ d.items # <<>> THEN [raised |-> "AttributeError"]
           ELSE [returned |-> flatten(d, <<>>, <<"_">>)])

NextUtil ==
    \/ \E l \in LabelArgs, m \in MaxLenArgs : StripAndTruncateLabel(l, m)
    \/ \E d \in DictArgs(MaxDepth), has_abc \in BOOLEAN : Flatten(d, has_abc)

InitUtil == Init /\ graph = EmptyGraph

SpecUtil == InitUtil /\ [][NextUtil]_vars

-----------------------------------------------------------------------------
(* What a callback may do with the arguments it is called with: the network   *)
(* (self) and the payload dict.  SpecReentrant lets the running callback      *)
(* register a callback, store into the dicts it was passed, and call a        *)
(* wrapper of the network.                                                    *)

MaxRegsReentrant == 2       \* SpecReentrant: registration calls that may succeed
MaxMutationsReentrant == 2  \* SpecReentrant: base mutations that may succeed

\* The running callback calls network.register_callback(event, callback).
CallbackRegisters(event, callback) ==
    /\ running
    /\ LET r == register_callback(callbacks, default_factory, event, callback) IN
       /\ r.result = "ok"
       /\ callbacks' = r.cbs
    /\ regLog' = Append(regLog, [op |-> "register_callback",
                                 args |-> [event |-> event, callback |-> callback]])
    /\ nBaseOk' = ZeroCounts
    /\ nInv' = ZeroInv
    /\ UNCHANGED <<default_factory, graph, pc, call, data, payload, idx, running,
                   baseOutcome, result, invoked, nMut, lenAtStart, outer, other>>

\* The running callback stores into the dict it was passed: data[key] = value.  The
\* dict is the wrapper's payload, the one object every callback of the loop is passed.
CallbackSetsItem(key, value) ==
    /\ running
    /\ payload' = SetItem(payload, key, value)
    /\ UNCHANGED <<callbacks, default_factory, graph, pc, call, data, idx, running,
                   baseOutcome, result, invoked, nBaseOk, nInv, nMut, regLog, lenAtStart,
                   outer, other>>

\* The running callback stores into the mapping inside: data['data'][key] = value.
\* payload['data'] is the wrapper's local `data`, which is the caller's argument
\* unless that was None.
CallbackSetsDataItem(key, value) ==
    /\ running
    /\ "data" \in DOMAIN payload
    /\ data' = SetItem(data, key, value)
    /\ payload' = [payload EXCEPT !.data = data']
    /\ UNCHANGED <<callbacks, default_factory, graph, pc, call, idx, running,
                   baseOutcome, result, invoked, nBaseOk, nInv, nMut, regLog, lenAtStart,
                   outer, other>>

\* The running callback calls the wrapper op of the network with arguments a: the
\* call in progress is suspended and the new call begins.
CallbackCalls(op, a) ==
    /\ running
    /\ outer = None
    /\ outer' = [pc |-> pc, call |-> call, data |-> data, payload |-> payload, idx |-> idx,
                 baseOutcome |-> baseOutcome, invoked |-> invoked,
                 lenAtStart |-> lenAtStart]
    /\ call' = [op |-> op, args |-> a]
    /\ data' = IF "data" \in DOMAIN a THEN DefaultData(a.data) ELSE None
    /\ payload' = None
    /\ idx' = 0
    /\ running' = FALSE
    /\ baseOutcome' = "none"
    /\ invoked' = <<>>
    /\ pc' = WrapperSteps[1]
    /\ result' = "pending"
    /\ lenAtStart' = LenOf(callbacks, EventOf(op))
    /\ UNCHANGED <<callbacks, default_factory, graph, nBaseOk, nInv, nMut, regLog, other>>

\* The call a callback made is over: the callback goes on where it made the call (an
\* exception of the call is raised there, and the callback may let it pass).
CallbackResumes ==
    /\ pc = "idle"
    /\ outer # None
    /\ pc' = outer.pc
    /\ call' = outer.call
    /\ data' = outer.data
    /\ payload' = outer.payload
    /\ idx' = outer.idx
    /\ baseOutcome' = outer.baseOutcome
    /\ invoked' = outer.invoked
    /\ lenAtStart' = outer.lenAtStart
    /\ running' = TRUE
    /\ result' = "pending"
    /\ outer' = None
    /\ UNCHANGED <<callbacks, default_factory, graph, nBaseOk, nInv, nMut, regLog, other>>

NextReentrant ==
    \/ \E d \in DataArgs : nMut < MaxMutationsReentrant /\ add_node("n1", d)
    \/ \E c \in Callables :
          Len(regLog) < MaxRegsReentrant /\ RegisterUniversalCallback(c)
    \/ \E c \in Callables :
          Len(regLog) < MaxRegsReentrant /\ CallbackRegisters(EventOf(call.op), c)
    \/ CallbackSetsItem("node_id", "n2")
    \/ CallbackSetsDataItem("k", "v2")
    \/ \E d \in DataArgs :
          nMut < MaxMutationsReentrant
          /\ CallbackCalls("add_node_data", [node_id |-> "n1", data |-> d])
    \/ CallbackResumes
    \/ Step

SpecReentrant == InitOrder /\ [][NextReentrant]_vars

-----------------------------------------------------------------------------
(* SpecCtor: a network constructed with a callbacks argument.  __init__ stores *)
(* the mapping it is given as self.callbacks, whatever kind of dict it is.     *)

MaxRegsCtor == 2        \* SpecCtor: callbacks one event may have
MaxMutationsCtor == 1   \* SpecCtor: base mutations that may succeed

\* The callbacks argument: None, a defaultdict(list), or a plain dict, empty or with
\* a key.  Each is given as the mapping and its default_factory.
CallbacksArgs ==
    {[cbs |-> <<>>, factory |-> "list"],
     [cbs |-> <<>>, factory |-> "none"],
     [cbs |-> SetItem(<<>>, EVENT_ADD_NODE, <<>>), factory |-> "none"]}

InitCtor ==
    /\ \E arg \in CallbacksArgs : Constructed(arg.cbs, arg.factory)
    /\ graph = SampleGraph
    /\ other = NewNetwork(None)

NextCtor ==
    \/ \E d \in DataArgs : nMut < MaxMutationsCtor /\ add_node("n1", d)
    \/ \E d \in DataArgs : nMut < MaxMutationsCtor /\ add_edge_data("n1", "n2", "e1", d)
    \/ \E ev \in {EVENT_ADD_NODE, EVENT_ADD_EDGE_DATA}, c \in Callables :
          LenOf(callbacks, ev) < MaxRegsCtor /\ RegisterCallback(ev, c)
    \/ \E c \in Callables :
          (\A ev \in ValidEventSet : LenOf(callbacks, ev) < MaxRegsCtor)
          /\ RegisterUniversalCallback(c)
    \/ Step

SpecCtor == InitCtor /\ [][NextCtor]_vars

-----------------------------------------------------------------------------
(* SpecTwo: two networks.  The second is constructed without a callbacks      *)
(* argument or with the mapping the first one holds; callbacks are registered *)
(* on both, and mutations are made on the first.                              *)

MaxRegsTwo == 1         \* SpecTwo: registration calls that may succeed on each network
MaxMutationsTwo == 1    \* SpecTwo: base mutations that may succeed

\* register_callback called on the second network: it acts on the mapping that
\* network's self.callbacks refers to.
OtherRegisterCallback(event, callback) ==
    /\ pc = "idle"
    /\ outer = None
    /\ LET shared == other.ref = "same"
           r == register_callback(IF shared THEN callbacks ELSE other.callbacks,
                                  IF shared THEN default_factory ELSE "list",
                                  event, callback)
           a == [event |-> event, callback |-> callback]
       IN /\ call' = [op |-> "other.register_callback", args |-> a]
          /\ result' = r.result
          /\ callbacks' = IF shared THEN r.cbs ELSE callbacks
          /\ other' = [other EXCEPT
                          !.callbacks = IF shared THEN @ ELSE r.cbs,
                          !.regLog = IF r.result = "ok"
                                     THEN Append(@, [op |-> "register_callback", args |-> a])
                                     ELSE @]
    /\ invoked' = <<>>
    /\ data' = None
    /\ payload' = None
    /\ idx' = 0
    /\ baseOutcome' = "none"
    /\ lenAtStart' = 0
    /\ UNCHANGED <<default_factory, graph, pc, running, nBaseOk, nInv, nMut, regLog, outer>>

InitTwo ==
    /\ Constructed(<<>>, "list")
    /\ graph = SampleGraph
    /\ \E arg \in {None, TheSameMapping} : other = NewNetwork(arg)

NextTwo ==
    \/ \E d \in DataArgs : nMut < MaxMutationsTwo /\ add_node("n1", d)
    \/ \E d \in DataArgs : nMut < MaxMutationsTwo /\ add_node_data("n1", d)
    \/ \E ev \in {EVENT_ADD_NODE, EVENT_ADD_NODE_DATA}, c \in Callables :
          Len(regLog) < MaxRegsTwo /\ RegisterCallback(ev, c)
    \/ \E ev \in {EVENT_ADD_NODE, EVENT_ADD_NODE_DATA}, c \in Callables :
          Len(other.regLog) < MaxRegsTwo /\ OtherRegisterCallback(ev, c)
    \/ Step

SpecTwo == InitTwo /\ [][NextTwo]_vars

-----------------------------------------------------------------------------
(* SpecRetry: the same mutations made again and again, on a graph that is      *)
(* empty at first, with callbacks that may fail.                               *)

MaxRegsRetry == 2       \* SpecRetry: registration calls that may succeed
MaxMutationsRetry == 2  \* SpecRetry: base mutations that may succeed

InitRetry == Init /\ graph = EmptyGraph

NextRetry ==
    \/ nMut < MaxMutationsRetry /\ add_node("n1", [k |-> "v1"])
    \/ nMut < MaxMutationsRetry /\ add_node_property("n1", "k", "v1")
    \/ \E ev \in {EVENT_ADD_NODE, EVENT_ADD_NODE_PROPERTY}, c \in Callables :
          Len(regLog) < MaxRegsRetry /\ RegisterCallback(ev, c)
    \/ Step

SpecRetry == InitRetry /\ [][NextRetry]_vars

-----------------------------------------------------------------------------
(* What the specification states, in the model's terms. *)

\* The event kind of each mutation (AddNode, AddNodeData, ... of the specification).
KindOf(op) ==
    CASE op = "add_node" -> "add_node"
      [] op = "add_node_data" -> "add_node_data"
      [] op = "add_node_property" -> "add_node_property"
      [] op = "add_edge" -> "add_edge"
      [] op = "add_edge_data" -> "add_edge_data"

FiveKinds == {KindOf(op) : op \in Wrappers}

\* The payload fields of each kind: the schema table of the specification.
SchemaFields(op) ==
    CASE op = "add_node" -> {"node_id", "data"}
      [] op = "add_node_data" -> {"node_id", "data"}
      [] op = "add_node_property" -> {"node_id", "key", "value"}
      [] op = "add_edge" -> {"from_id", "to_id", "edge_id", "label", "data"}
      [] op = "add_edge_data" -> {"from_id", "to_id", "edge_id", "data"}

\* The payload a call with arguments a shall produce: each field the argument of that
\* name, an omitted data argument as an empty mapping.
ExpectedPayload(op, a) ==
    [f \in SchemaFields(op) |-> IF f = "data" /\ a.data = None THEN EmptyDict ELSE a[f]]

IsMutation == call.op \in Wrappers

\* The callbacks registered for kind k, from the registration calls made, in their order.
RECURSIVE RegisteredIn(_, _)
RegisteredIn(log, k) ==
    IF log = <<>> THEN <<>>
    ELSE LET r == log[Len(log)]
             before == RegisteredIn(SubSeq(log, 1, Len(log) - 1), k)
         IN IF r.op = "register_universal_callback" /\ k \in FiveKinds
            THEN Append(before, r.args.callback)
            ELSE IF r.op = "register_callback" /\ r.args.event = k
            THEN Append(before, r.args.callback)
            ELSE before

RegisteredFor(k) == RegisteredIn(regLog, k)

InvokedCallbacks == [i \in 1..Len(invoked) |-> invoked[i].callback]

Count(seq, x) == Cardinality({i \in 1..Len(seq) : seq[i] = x})

\* The data mapping d is contained in the stored mapping m.
Contains(m, d) == \A k \in DOMAIN d : k \in DOMAIN m /\ m[k] = d[k]

GivenData(a) == IF a.data = None THEN EmptyDict ELSE a.data

\* The graph g holds what the mutation op(a) puts into it.
EffectApplied(g, op, a) ==
    CASE op = "add_node" ->
           a.node_id \in DOMAIN g.nodes /\ Contains(g.nodes[a.node_id], GivenData(a))
      [] op = "add_node_data" ->
           a.node_id \in DOMAIN g.nodes /\ Contains(g.nodes[a.node_id], GivenData(a))
      [] op = "add_node_property" ->
           /\ a.node_id \in DOMAIN g.nodes
           /\ a.key \in DOMAIN g.nodes[a.node_id]
           /\ g.nodes[a.node_id][a.key] = a.value
      [] op = "add_edge" ->
           /\ <<a.from_id, a.to_id, a.edge_id>> \in DOMAIN g.edges
           /\ g.edges[<<a.from_id, a.to_id, a.edge_id>>].label = a.label
           /\ Contains(g.edges[<<a.from_id, a.to_id, a.edge_id>>].data, GivenData(a))
      [] op = "add_edge_data" ->
           /\ <<a.from_id, a.to_id, a.edge_id>> \in DOMAIN g.edges
           /\ Contains(g.edges[<<a.from_id, a.to_id, a.edge_id>>].data, GivenData(a))

\* C1: when L is the only callback registered (for the kind of the mutation, and no
\* other kind has any), a mutation whose base call succeeded has, once it is over,
\* invoked L exactly once, with a payload whose fields are those of the schema table
\* and whose values are the call's arguments (an omitted data as an empty mapping).
C1_SingleListenerPayload ==
    \A L \in Callables :
        (/\ pc = "idle"
         /\ IsMutation
         /\ baseOutcome = "returned"
         /\ RegisteredFor(KindOf(call.op)) = <<L>>
         /\ \A k \in (FiveKinds \cup OtherEvents) \ {KindOf(call.op)} : RegisteredFor(k) = <<>>)
        => /\ Len(invoked) = 1
           /\ invoked[1].callback = L
           /\ DOMAIN invoked[1].data = SchemaFields(call.op)
           /\ invoked[1].data = ExpectedPayload(call.op, call.args)

C1_Witness ==
    /\ pc = "idle"
    /\ call.op = "add_edge"
    /\ call.args.from_id = "n1"
    /\ call.args.to_id = "n2"
    /\ call.args.data = None
    /\ baseOutcome = "returned"
    /\ result = "ok"
    /\ regLog = <<[op |-> "register_callback", args |-> [event |-> "add_edge", callback |-> "f"]]>>
    /\ Len(invoked) = 1
    /\ invoked[1].data.data = EmptyDict

\* C2: when the base call of a mutation fails, the call is over with that failure and
\* no callback has been invoked for it.
C2_BaseFailureSilent ==
    baseOutcome = "raised" => (pc = "idle" /\ result = "BaseError" /\ invoked = <<>>)

C2_Witness ==
    /\ baseOutcome = "raised"
    /\ call.op = "add_node_data"
    /\ call.args.node_id \notin DOMAIN graph.nodes
    /\ Len(RegisteredFor("add_node_data")) > 0
    /\ pc = "idle"

\* C3: the callbacks a mutation has invoked so far are, in order, the first ones
\* registered for its kind, and a mutation that returns has invoked all of them.
C3_RegistrationOrder ==
    IsMutation =>
        LET reg == RegisteredFor(KindOf(call.op)) IN
        /\ Len(invoked) <= Len(reg)
        /\ InvokedCallbacks = SubSeq(reg, 1, Len(invoked))
        /\ (pc = "idle" /\ result = "ok") => Len(invoked) = Len(reg)

C3_Witness ==
    /\ pc = "idle"
    /\ IsMutation
    /\ result = "ok"
    /\ RegisteredFor(KindOf(call.op)) = <<"g", "f", "g">>
    /\ InvokedCallbacks = <<"g", "f", "g">>

\* C4: a mutation that returns has invoked each callback as many times as it was
\* registered for the kind.
C4_NoDeduplication ==
    (pc = "idle" /\ IsMutation /\ result = "ok") =>
        \A L \in Callables :
            Count(InvokedCallbacks, L) = Count(RegisteredFor(KindOf(call.op)), L)

C4_Witness ==
    /\ pc = "idle"
    /\ IsMutation
    /\ result = "ok"
    /\ regLog = <<[op |-> "register_callback", args |-> [event |-> "add_node", callback |-> "f"]],
                  [op |-> "register_callback", args |-> [event |-> "add_node", callback |-> "f"]]>>
    /\ call.op = "add_node"
    /\ Count(InvokedCallbacks, "f") = 2

\* C5: a registration call (for one event or for all) with a callback that is not
\* callable ends with the ValueError that stands for InvalidListener and leaves the
\* registry, the list of every kind, as it was.
C5_RejectNonCallable ==
    [][(/\ pc = "idle"
        /\ pc' = "idle"
        /\ call'.op \in {"register_callback", "register_universal_callback"}
        /\ call'.args.callback \in NonCallables)
       => (result' = "ValueError" /\ callbacks' = callbacks)]_vars

C5_Witness ==
    /\ pc = "idle"
    /\ call.op = "register_universal_callback"
    /\ call.args.callback \in NonCallables
    /\ result = "ValueError"
    /\ RegisteredFor("add_edge") = <<"f">>
    /\ callbacks = SetItem(<<>>, "add_edge", <<"f">>)

\* C6: when the only registration made is one register_universal_callback(L), then
\* between calls L has been invoked, with each kind's event name, as many times as
\* mutations of that kind succeeded (once per mutation), no other callback has been
\* invoked, and every invocation carried the event name and payload of its call.
C6_AllEvents ==
    \A L \in Callables :
        (/\ pc = "idle"
         /\ regLog = <<[op |-> "register_universal_callback", args |-> [callback |-> L]]>>)
        => /\ \A op \in Wrappers : nInv[L][KindOf(op)] = nBaseOk[op]
           /\ \A c \in Callables \ {L} : \A k \in FiveKinds : nInv[c][k] = 0
           /\ \A i \in 1..Len(invoked) :
                 /\ invoked[i].callback = L
                 /\ invoked[i].event_name = KindOf(call.op)
                 /\ invoked[i].data = ExpectedPayload(call.op, call.args)

C6_Witness ==
    /\ pc = "idle"
    /\ regLog = <<[op |-> "register_universal_callback", args |-> [callback |-> "f"]]>>
    /\ \A op \in Wrappers : nBaseOk[op] = 1
    /\ \A k \in FiveKinds : nInv["f"][k] = 1
    /\ result = "ok"

\* C7: while a callback is running for a mutation, the base call of that mutation
\* has returned and the graph holds what the mutation puts into it.
C7_NotifiedAfterMutation ==
    running => (baseOutcome = "returned" /\ EffectApplied(graph, call.op, call.args))

C7_Witness ==
    /\ running
    /\ call.op = "add_node_property"
    /\ call.args.node_id = "n2"
    /\ graph.nodes["n2"] = [k |-> "v1"]
    /\ idx = 1

\* C8: a callback that fails is the last one invoked for its event: the callbacks
\* registered before it were invoked once each, in order, and returned; none after it
\* is invoked; and the call is over with the callback's failure.
C8_ListenerFailureAborts ==
    \A i \in 1..Len(invoked) :
        invoked[i].outcome = "raised" =>
            /\ i = Len(invoked)
            /\ pc = "idle"
            /\ result = "ListenerError"
            /\ \A j \in 1..(i - 1) : invoked[j].outcome = "returned"
            /\ InvokedCallbacks = SubSeq(RegisteredFor(KindOf(call.op)), 1, i)

C8_Witness ==
    /\ pc = "idle"
    /\ result = "ListenerError"
    /\ Len(invoked) = 2
    /\ invoked[2].outcome = "raised"
    /\ RegisteredFor(KindOf(call.op)) = <<"f", "g", "f">>

\* C9: while a mutation runs whose kind has no callback registered, the registry
\* stays as it is (no entry appears for the kind), no callback is invoked, and when
\* its base call succeeded the call returns normally.
C9_NoListenersNoOp ==
    [][(pc # "idle" /\ RegisteredFor(KindOf(call.op)) = <<>>)
       => /\ callbacks' = callbacks
          /\ invoked' = <<>>
          /\ (pc' = "idle" /\ baseOutcome' = "returned") => result' = "ok"]_vars

C9_Witness ==
    /\ pc = "idle"
    /\ call.op = "add_node_data"
    /\ baseOutcome = "returned"
    /\ result = "ok"
    /\ invoked = <<>>
    /\ DOMAIN callbacks = {"add_node"}

\* C10: the registry holds callbacks only under the five event kinds.
C10_ClosedEventKinds ==
    \A k \in DOMAIN callbacks : k \in FiveKinds


\* The leaves of the nested mapping d, each under its path joined with "_": the pairs
\* of the mapping flatten shall return.
RECURSIVE JoinedLeaves(_, _)
JoinedLeaves(d, path) ==
    UNION {LET k == d.items[i][1]
               v == d.items[i][2]
               p == IF path = <<>> THEN k ELSE path \o <<"_">> \o k
           IN IF "items" \in DOMAIN v THEN JoinedLeaves(v, p) ELSE {<<p, v>>}
           : i \in 1..Len(d.items)}

\* C11: when flatten returns, the mapping returned holds exactly the leaves of its
\* argument, each under the keys of its path joined with "_" and with its value.
C11_FlattenJoinsPath ==
    (call.op = "flatten" /\ "returned" \in DOMAIN result) =>
        {result.returned.items[i] : i \in 1..Len(result.returned.items)}
            = JoinedLeaves(call.args.d, <<>>)

\* The label with the characters [ ] ' taken off both ends.
RECURSIVE Stripped(_)
Stripped(s) ==
    IF s # <<>> /\ Head(s) \in {"[", "]", "'"} THEN Stripped(Tail(s))
    ELSE IF s # <<>> /\ s[Len(s)] \in {"[", "]", "'"} THEN Stripped(SubSeq(s, 1, Len(s) - 1))
    ELSE s

\* C12: for every label and every maximum length, the result is the stripped label
\* when that is no longer than the maximum, and otherwise its first (max - 3)
\* characters followed by "...", a string as long as the maximum.
C12_TruncateToMax ==
    call.op = "strip_and_truncate_label" =>
        LET label == Stripped(call.args.old_label)
            max == call.args.max_len
        IN IF Len(label) <= max THEN result.returned = label
           ELSE /\ Len(result.returned) = max
                /\ result.returned = [i \in 1..max |-> IF i <= max - 3 THEN label[i] ELSE "."]


\* C13: a mutation invokes at most as many callbacks as its kind had registered when
\* the call began, also when a callback registers a callback for that kind while the
\* loop runs.
C13_BoundedDispatch ==
    IsMutation => Len(invoked) <= lenAtStart


\* C14: every callback of one event is passed a payload equal to the arguments of the
\* call, whatever the callbacks before it stored into the payload they were passed;
\* the caller's data argument stays as it was given; and the graph holds only items
\* given as data to a call.
C14_PayloadsAreValues ==
    IsMutation =>
        /\ \A i \in 1..Len(invoked) : invoked[i].data = ExpectedPayload(call.op, call.args)
        /\ ("data" \in DOMAIN call.args /\ call.args.data # None) => data = call.args.data
        /\ \A n \in DOMAIN graph.nodes :
              \E d \in DataArgs : Contains(GivenData([data |-> d]), graph.nodes[n])

\* C19: while a call made by a callback (the inner, later mutation) is in progress,
\* every callback it invokes that is also registered for the kind of the suspended
\* call (the outer, earlier mutation) has already been invoked for that one; and the
\* inner call, when it returns, has invoked each callback as often as it is registered.
C19_MutationOrder ==
    (outer # None /\ KindOf(call.op) # KindOf(outer.call.op)) =>
        /\ \A i \in 1..Len(invoked) :
              Count(RegisteredFor(KindOf(outer.call.op)), invoked[i].callback) > 0
              => \E j \in 1..Len(outer.invoked) :
                    outer.invoked[j].callback = invoked[i].callback
        /\ (pc = "idle" /\ result = "ok") =>
              \A c \in Callables :
                  Count(InvokedCallbacks, c) = Count(RegisteredFor(KindOf(call.op)), c)


\* The sequence of callbacks the registry cbs holds for kind k.
ListOf(cbs, k) == IF k \in DOMAIN cbs THEN cbs[k] ELSE <<>>

\* C15: however the network was constructed, a register_callback call with a callable
\* and one of the five kinds succeeds, puts the callable at the end of that kind's
\* sequence, leaves the sequences of the other four kinds as they were, invokes no
\* callback and leaves the graph as it was.
C15_RegisterAppends ==
    [][(/\ pc = "idle"
        /\ pc' = "idle"
        /\ call'.op = "register_callback"
        /\ call'.args.callback \in Callables
        /\ call'.args.event \in FiveKinds)
       => /\ result' = "ok"
          /\ ListOf(callbacks', call'.args.event)
                = Append(ListOf(callbacks, call'.args.event), call'.args.callback)
          /\ \A k \in FiveKinds \ {call'.args.event} :
                ListOf(callbacks', k) = ListOf(callbacks, k)
          /\ invoked' = <<>>
          /\ graph' = graph]_vars


\* C16: every invocation a mutation of kind K makes passes the network itself, K and
\* the payload of the call, and is of a callback registered for K (one registered
\* only for other kinds is not invoked); a mutation that returns has invoked every
\* callback registered for K.
C16_OwnKindOnly ==
    IsMutation =>
        LET K == KindOf(call.op) IN
        /\ \A i \in 1..Len(invoked) :
              /\ invoked[i].network = "self"
              /\ invoked[i].event_name = K
              /\ invoked[i].data = ExpectedPayload(call.op, call.args)
              /\ Count(RegisteredFor(K), invoked[i].callback) > 0
        /\ (pc = "idle" /\ result = "ok") =>
              \A c \in Callables :
                  Count(RegisteredFor(K), c) > 0 => Count(InvokedCallbacks, c) > 0

C16_Witness ==
    /\ pc = "idle"
    /\ result = "ok"
    /\ call.op = "add_node_property"
    /\ regLog = <<[op |-> "register_callback", args |-> [event |-> "add_node", callback |-> "g"]],
                  [op |-> "register_universal_callback", args |-> [callback |-> "f"]]>>
    /\ InvokedCallbacks = <<"f">>
    /\ invoked[1].event_name = "add_node_property"


\* The registry of the second network, as reading its self.callbacks shows it.
RegistryOfOther == IF other.ref = "same" THEN callbacks ELSE other.callbacks

\* What C17 states of one step: a registration on the second network leaves the
\* registry of the first as it is, a registration on the first leaves that of the
\* second as it is, and the callbacks a mutation on the first has invoked were all
\* registered for its kind on the first.
RegistriesApart ==
    /\ call'.op = "other.register_callback" => callbacks' = callbacks
    /\ call'.op \in {"register_callback", "register_universal_callback"}
          => RegistryOfOther' = RegistryOfOther
    /\ call'.op \in Wrappers =>
          \A i \in 1..Len(invoked') :
              Count(RegisteredIn(regLog', KindOf(call'.op)), invoked'[i].callback) > 0

C18_FailureKeepsMutation ==
    /\ (pc = "idle" /\ result = "ListenerError") =>
          /\ baseOutcome = "returned"
          /\ EffectApplied(graph, call.op, call.args)
          /\ \A k \in FiveKinds : ListOf(callbacks, k) = RegisteredFor(k)
    /\ (pc = "idle" /\ IsMutation /\ result = "ok") =>
          /\ InvokedCallbacks = RegisteredFor(KindOf(call.op))
          /\ \A k \in FiveKinds : ListOf(callbacks, k) = RegisteredFor(k)

\* The second of two add_node calls has returned after invoking f and g; g was invoked
\* once in the two calls, so the first call ended with the failure of f.
C18_Witness ==
    /\ pc = "idle"
    /\ result = "ok"
    /\ call.op = "add_node"
    /\ RegisteredFor("add_node") = <<"f", "g">>
    /\ nBaseOk["add_node"] = 2
    /\ nInv["f"]["add_node"] = 2
    /\ nInv["g"]["add_node"] = 1
    /\ InvokedCallbacks = <<"f", "g">>
    /\ graph.nodes["n1"] = [k |-> "v1"]

====
